---- MODULE Spec2Model ----
(***************************************************************************)
(* Model of the MedRAG-Core web client: the zustand store (useAppStore),   *)
(* the intake wizard (SymptomPanel / App) and the three ChatPanel builds   *)
(* found in the repository:                                                *)
(*   "plain"  - ChatPanel.tsx       (POST /chat, message added at once)    *)
(*   "typing" - unnamed/part_002    (/chat or /rag/chat + typing effect)   *)
(*   "sse"    - unnamed/part_001    (/rag/chat/stream SSE or atomic /chat) *)
(* and the page script unnamed/part_000 ("vanilla": POST /chat).           *)
(* Asynchronous functions are modelled as tasks: one slot per call that is *)
(* suspended at an await, with its local variables.                        *)
(***************************************************************************)
EXTENDS Naturals, Integers, Sequences, FiniteSets, TLC

\* ---------------------------------------------------------------- bounds
MaxTasks == 2       \* async calls that may be suspended at the same time
MaxRequests == 2    \* requests issued in one behaviour
MaxSources == 5     \* length of a source list drawn for formatSources
MaxFlags == 2       \* red flags of a report drawn for sendInitialMessage
MaxChunks == 2      \* chunk events of a response body
MaxHistory == 3     \* messages of a history built by store calls alone
MaxTurns == 6       \* turns of a conversation before the send that is observed

\* ------------------------------------------------------- program constants
HistoryLimit == 10          \* messages.slice(-10)
SourceLimit == 3            \* .slice(0, 3)
RelevanceThreshold == 30    \* relevance_score > 0.3, scores in hundredths
chunkSize == 3              \* streamMessage: const chunkSize = 3
DefaultSeverity == 5        \* severity: 5

\* ------------------------------------------------------------ option type
None == <<>>
Some(x) == <<x>>

\* ------------------------------------------------------------ small domains
Null == "null"
Regions == {"head", "neck"}
Symptoms == {"pain", "stiffness"}
Severities == {5, 7}
Onsets == {"today"}
Triggers == {"injury"}
RedFlags == {"severe_pain"}
Notes == {"", "n"}
Variants == {"plain", "typing", "sse", "vanilla"}
\* the inputs of the wizard walked in a conversation
ChatRegions == {"neck"}
ChatSymptoms == {"pain"}

\* BODY_REGIONS[region].symptoms restricted to the symptoms of the model
RegionSymptoms(r) == IF r = "head" THEN {"pain"} ELSE {"pain", "stiffness"}

\* texts are sequences of characters (tokens)
UserTexts == {<<"q">>}
Responses == {<<"r", "e", "s", "p">>}
ResponsesEn == {<<"en">>}
ChunkTexts == {<<"c">>, <<"c", "d">>}
ErrorMessages == {"m"}
WelcomeText == <<"h", "e", "l", "o">>
GenericError == <<"x", "E", "r", "r">>
EventError(m) == <<"x", "H", m>>
SourceHeader == "S:"

\* sources of a done event / rag response: title and relevance_score
Src(t, s) == [title |-> t, relevance_score |-> s]
SourcePool == {Src("a", 30), Src("b", 31), Src("c", 90)}
SourceLists == {<<>>, <<Src("a", 30)>>, <<Src("b", 31), Src("a", 30), Src("c", 90)>>}

VARIABLES
  variant,             \* which ChatPanel build is running
  interactionMode, currentStep,
  selectedRegion, hoveredRegion, selectedSymptom,
  severity, onset, trigger, redFlags, additionalNotes,
  messages, isLoading, isStreaming,
  useRag,
  initialMessageSent,  \* useRef(false) of the mounted ChatPanel
  tasks,               \* suspended async calls, by slot
  ownIdx,              \* history: index of the assistant message a task appended
  stale,               \* history: the task was suspended when the user reset
  issued,              \* history: number of requests issued so far
  fmtIn, fmtOut,       \* input / result of a formatSources call
  tplIn, tplOut,       \* report / text of a sendInitialMessage call
  tplPrevIn, tplPrevOut,  \* report / text of the call before
  rdEmitted,           \* events the server writes to the response body
  rdWire,              \* bytes of the body not read yet
  rdApplied,           \* events the reader loop has applied
  rpOut                \* state read and value returned by getCurrentSymptomReport

storeVars == <<interactionMode, currentStep, selectedRegion, hoveredRegion,
               selectedSymptom, severity, onset, trigger, redFlags,
               additionalNotes, messages, isLoading, isStreaming, useRag>>
intakeVars == <<selectedRegion, selectedSymptom, severity, onset, trigger,
                redFlags, additionalNotes>>
tplVars == <<tplIn, tplOut, tplPrevIn, tplPrevOut>>
rdVars == <<rdEmitted, rdWire, rdApplied>>
fmtVars == <<fmtIn, fmtOut, tplVars, rdVars, rpOut>>
histVars == <<ownIdx, stale, issued>>
vars == <<variant, storeVars, initialMessageSent, tasks, histVars, fmtVars>>

Slots == 1..MaxTasks

\* ------------------------------------------------------------ sequences
Min(a, b) == IF a < b THEN a ELSE b
Max(a, b) == IF a > b THEN a ELSE b
\* Array.prototype.slice(0, n)
SliceTo(s, n) == SubSeq(s, 1, Min(n, Len(s)))
\* Array.prototype.slice(-n)
SliceLast(s, n) == SubSeq(s, Max(1, Len(s) - n + 1), Len(s))
IsPrefix(p, s) == Len(p) <= Len(s) /\ SubSeq(s, 1, Len(p)) = p
InSeq(x, s) == \E i \in 1..Len(s) : s[i] = x

\* ------------------------------------------------------------ the store
\* ChatMessage (id and timestamp are fresh on every addMessage)
Msg(role, content, en, em, ctx) ==
  [role |-> role, content |-> content, content_en |-> en,
   isEmergency |-> em, symptomContext |-> ctx]

\* addMessage
addMessage(ms, m) == Append(ms, m)

\* an updateLastMessage that rebuilds the last message without its translation
updateLastMessage_DropsEn(ms, content) ==
  IF Len(ms) > 0
  THEN [ms EXCEPT ![Len(ms)] = [ms[Len(ms)] EXCEPT !.content = content,
                                                   !.content_en = None]]
  ELSE ms

\* updateLastMessage
updateLastMessage(ms, content) ==
  IF Len(ms) > 0
  THEN [ms EXCEPT ![Len(ms)] = [ms[Len(ms)] EXCEPT !.content = content]]
  ELSE ms

\* toggleRedFlag
toggleRedFlag(fs, f) ==
  IF InSeq(f, fs) THEN SelectSeq(fs, LAMBDA g : g # f) ELSE Append(fs, f)

\* a getCurrentSymptomReport that also tests the severity for truthiness
getCurrentSymptomReport_SeverityTruthy ==
  IF selectedRegion = Null \/ selectedSymptom = Null \/ severity = 0 \/ onset = Null
  THEN None
  ELSE Some([region |-> selectedRegion, symptom |-> selectedSymptom,
             severity |-> severity, onset |-> onset,
             trigger |-> IF trigger = Null THEN None ELSE Some(trigger),
             redFlags |-> redFlags,
             additionalNotes |-> IF additionalNotes = "" THEN None
                                 ELSE Some(additionalNotes)])

\* getCurrentSymptomReport: None is null
getCurrentSymptomReport ==
  IF selectedRegion = Null \/ selectedSymptom = Null \/ onset = Null
  THEN None
  ELSE Some([region |-> selectedRegion, symptom |-> selectedSymptom,
             severity |-> severity, onset |-> onset,
             trigger |-> IF trigger = Null THEN None ELSE Some(trigger),
             redFlags |-> redFlags,
             additionalNotes |-> IF additionalNotes = "" THEN None
                                 ELSE Some(additionalNotes)])

\* a resetSymptomSelection that keeps the trigger and the notes
resetSymptomSelection_KeepNotes ==
  /\ selectedRegion' = Null
  /\ selectedSymptom' = Null
  /\ severity' = DefaultSeverity
  /\ onset' = Null
  /\ trigger' = trigger
  /\ redFlags' = <<>>
  /\ additionalNotes' = additionalNotes

\* resetSymptomSelection
resetSymptomSelection ==
  /\ selectedRegion' = Null
  /\ selectedSymptom' = Null
  /\ severity' = DefaultSeverity
  /\ onset' = Null
  /\ trigger' = Null
  /\ redFlags' = <<>>
  /\ additionalNotes' = ""

\* ------------------------------------------------------------ tasks
IdleTask ==
  [pc |-> "idle", kind |-> "none", streamingStarted |-> FALSE,
   fullContent |-> <<>>, currentIndex |-> 0, after |-> "none",
   history |-> <<>>, ctx |-> None, term |-> "none", lastChunk |-> <<>>,
   reported |-> None]

Free(t) == tasks[t].pc = "idle"
InFlight(t) == tasks[t].pc \in {"fetch", "read"}
FreeSlot == CHOOSE t \in Slots : Free(t) /\ \A u \in Slots : Free(u) => t <= u

\* ------------------------------------------------------------ intake wizard
\* Scene3D and SymptomPanel are rendered (App.tsx: neither welcome nor chat)
SelectionView == currentStep \notin {"welcome", "chat"}

chatVars == <<messages, isLoading, isStreaming, useRag, initialMessageSent,
              tasks, ownIdx, stale, issued>>

\* App.handleModelMode
HandleModelMode ==
  /\ variant # "vanilla"
  /\ currentStep = "welcome" /\ interactionMode = Null
  /\ interactionMode' = "model"
  /\ currentStep' = "body_selection"
  /\ UNCHANGED <<variant, intakeVars, hoveredRegion, chatVars, fmtVars>>

\* RealisticHumanModel.handleRegionClick
HandleRegionClick(r) ==
  /\ SelectionView
  /\ selectedRegion' = r
  /\ currentStep' = "symptom_selection"
  /\ UNCHANGED <<variant, interactionMode, hoveredRegion, selectedSymptom,
                 severity, onset, trigger, redFlags, additionalNotes,
                 chatVars, fmtVars>>

\* HitZone onPointerEnter / onPointerLeave
SetHoveredRegion(r) ==
  /\ SelectionView
  /\ hoveredRegion # r
  /\ hoveredRegion' = r
  /\ UNCHANGED <<variant, interactionMode, currentStep, intakeVars, chatVars,
                 fmtVars>>

\* SymptomSelection onSelect: one of the buttons of availableSymptoms
SelectSymptom(s) ==
  /\ currentStep = "symptom_selection"
  /\ selectedRegion # Null
  /\ s \in RegionSymptoms(selectedRegion)
  /\ selectedSymptom' = s
  /\ UNCHANGED <<variant, interactionMode, currentStep, selectedRegion,
                 hoveredRegion, severity, onset, trigger, redFlags,
                 additionalNotes, chatVars, fmtVars>>

\* SeveritySelection onSeverityChange
SetSeverity(v) ==
  /\ currentStep = "severity_selection"
  /\ severity' = v
  /\ UNCHANGED <<variant, interactionMode, currentStep, selectedRegion,
                 hoveredRegion, selectedSymptom, onset, trigger, redFlags,
                 additionalNotes, chatVars, fmtVars>>

\* AdditionalInfo: onset, trigger (a second click deselects), red flags, notes
SetOnset(o) ==
  /\ currentStep = "additional_info"
  /\ onset' = o
  /\ UNCHANGED <<variant, interactionMode, currentStep, selectedRegion,
                 hoveredRegion, selectedSymptom, severity, trigger, redFlags,
                 additionalNotes, chatVars, fmtVars>>

SetTrigger(g) ==
  /\ currentStep = "additional_info"
  /\ trigger' = IF trigger = g THEN Null ELSE g
  /\ UNCHANGED <<variant, interactionMode, currentStep, selectedRegion,
                 hoveredRegion, selectedSymptom, severity, onset, redFlags,
                 additionalNotes, chatVars, fmtVars>>

ToggleRedFlag(f) ==
  /\ currentStep = "additional_info"
  /\ redFlags' = toggleRedFlag(redFlags, f)
  /\ UNCHANGED <<variant, interactionMode, currentStep, selectedRegion,
                 hoveredRegion, selectedSymptom, severity, onset, trigger,
                 additionalNotes, chatVars, fmtVars>>

SetAdditionalNotes(n) ==
  /\ currentStep = "additional_info"
  /\ additionalNotes # n
  /\ additionalNotes' = n
  /\ UNCHANGED <<variant, interactionMode, currentStep, selectedRegion,
                 hoveredRegion, selectedSymptom, severity, onset, trigger,
                 redFlags, chatVars, fmtVars>>

\* a handleBack that leaves the region selected on the way to body_selection
HandleBack_KeepRegion ==
  /\ currentStep \in {"symptom_selection", "severity_selection", "additional_info"}
  /\ CASE currentStep = "symptom_selection" ->
            /\ currentStep' = "body_selection"
            /\ UNCHANGED <<selectedRegion, selectedSymptom>>
       [] currentStep = "severity_selection" ->
            /\ selectedSymptom' = Null
            /\ currentStep' = "symptom_selection"
            /\ UNCHANGED selectedRegion
       [] currentStep = "additional_info" ->
            /\ currentStep' = "severity_selection"
            /\ UNCHANGED <<selectedRegion, selectedSymptom>>
  /\ UNCHANGED <<variant, interactionMode, hoveredRegion, severity, onset,
                 trigger, redFlags, additionalNotes, chatVars, fmtVars>>

\* SymptomPanel.handleBack (the button is not rendered on body_selection)
HandleBack ==
  /\ currentStep \in {"symptom_selection", "severity_selection", "additional_info"}
  /\ CASE currentStep = "symptom_selection" ->
            /\ selectedRegion' = Null
            /\ currentStep' = "body_selection"
            /\ UNCHANGED selectedSymptom
       [] currentStep = "severity_selection" ->
            /\ selectedSymptom' = Null
            /\ currentStep' = "symptom_selection"
            /\ UNCHANGED selectedRegion
       [] currentStep = "additional_info" ->
            /\ currentStep' = "severity_selection"
            /\ UNCHANGED <<selectedRegion, selectedSymptom>>
  /\ UNCHANGED <<variant, interactionMode, hoveredRegion, severity, onset,
                 trigger, redFlags, additionalNotes, chatVars, fmtVars>>

\* ------------------------------------------------------------ ChatPanel
\* BODY_REGIONS[..].name_tr, SYMPTOMS[..].name_tr.toLowerCase()
RegionNameTr(r) == IF r = "head" THEN "Bas" ELSE "Boyun"
SymptomNameTr(s) == IF s = "pain" THEN "agri" ELSE "sertlik/tutulma"
SeverityText(n) == <<"0", "1", "2", "3", "4", "5", "6", "7", "8", "9", "10">>[n + 1]
\* getOnsetMessage, getTriggerMessage, getRedFlagMessage
getOnsetMessage(o) == IF o = "today" THEN "Bugun basladi." ELSE ""
getTriggerMessage(g) == IF g = "injury" THEN "Bir darbe sonrasi olustu." ELSE ""
getRedFlagMessage(f) ==
  IF f = "severe_pain" THEN "Agri cok siddetli."
  ELSE IF f = "high_fever" THEN "Yuksek atesim var."
  ELSE IF f = "chest_pain" THEN "Gogsumde agri var."
  ELSE ""

RECURSIVE MapFlags(_)
MapFlags(fs) ==
  IF fs = <<>> THEN <<>>
  ELSE <<getRedFlagMessage(Head(fs))>> \o MapFlags(Tail(fs))

\* a sendInitialMessage that puts the notes before the red flags
SynthMessage_NotesFirst(report) ==
  <<RegionNameTr(report.region), SymptomNameTr(report.symptom)>>
  \o <<SeverityText(report.severity)>>
  \o <<getOnsetMessage(report.onset)>>
  \o (IF report.trigger # None THEN <<getTriggerMessage(report.trigger[1])>> ELSE <<>>)
  \o (IF report.additionalNotes # None THEN <<report.additionalNotes[1]>> ELSE <<>>)
  \o (IF Len(report.redFlags) > 0
      THEN SelectSeq(MapFlags(report.redFlags), LAMBDA m : m # "")
      ELSE <<>>)

\* sendInitialMessage of part_001 / part_002: the text synthesized from a report
SynthMessage(report) ==
  <<RegionNameTr(report.region), SymptomNameTr(report.symptom)>>
  \o <<SeverityText(report.severity)>>
  \o <<getOnsetMessage(report.onset)>>
  \o (IF report.trigger # None THEN <<getTriggerMessage(report.trigger[1])>> ELSE <<>>)
  \o (IF Len(report.redFlags) > 0
      THEN SelectSeq(MapFlags(report.redFlags), LAMBDA m : m # "")
      ELSE <<>>)
  \o (IF report.additionalNotes # None THEN <<report.additionalNotes[1]>> ELSE <<>>)

\* ONSET_OPTIONS, TRIGGER_OPTIONS, RED_FLAGS: name_tr
OnsetNameTr(o) == IF o = "today" THEN "Bugun" ELSE ""
TriggerNameTr(g) == IF g = "injury" THEN "Darbe/Yaralanma" ELSE ""
RedFlagNameTr(f) ==
  IF f = "severe_pain" THEN "Cok siddetli agri"
  ELSE IF f = "high_fever" THEN "Yuksek ates"
  ELSE IF f = "chest_pain" THEN "Gogus agrisi"
  ELSE ""

RECURSIVE MapFlagNames(_)
MapFlagNames(fs) ==
  IF fs = <<>> THEN <<>>
  ELSE <<RedFlagNameTr(Head(fs))>> \o MapFlagNames(Tail(fs))

\* sendInitialMessage of ChatPanel.tsx: the text synthesized from a report
SynthMessagePlain(report) ==
  <<RegionNameTr(report.region), SymptomNameTr(report.symptom)>>
  \o <<SeverityText(report.severity)>>
  \o <<OnsetNameTr(report.onset), "basladi.">>
  \o (IF report.trigger # None
      THEN <<TriggerNameTr(report.trigger[1]), "sonrasi ortaya cikti.">> ELSE <<>>)
  \o (LET flags == SelectSeq(MapFlagNames(report.redFlags), LAMBDA m : m # "")
      IN IF Len(flags) > 0 THEN <<"Ayrica:">> \o flags ELSE <<>>)
  \o (IF report.additionalNotes # None THEN <<report.additionalNotes[1]>> ELSE <<>>)

\* the text of the running build
InitialText(report) ==
  IF variant = "plain" THEN SynthMessagePlain(report) ELSE SynthMessage(report)

\* body.symptom_context
SymptomContext(report) ==
  [region |-> report.region, symptom |-> report.symptom,
   severity_0_10 |-> report.severity, onset |-> report.onset,
   trigger |-> IF report.trigger # None THEN report.trigger[1] ELSE Null,
   red_flags |-> report.redFlags]

RECURSIVE MapHistory(_, _)
MapHistory(ms, withEn) ==
  IF ms = <<>> THEN <<>>
  ELSE <<[role |-> Head(ms).role, content |-> Head(ms).content,
          content_en |-> IF withEn THEN Head(ms).content_en ELSE None]>>
       \o MapHistory(Tail(ms), withEn)

\* a history of the first messages instead of the last
HistoryPlain_Oldest(ms) == MapHistory(SliceTo(ms, HistoryLimit), FALSE)
\* history of ChatPanel.tsx: role and content only
HistoryPlain(ms) == MapHistory(SliceLast(ms, HistoryLimit), FALSE)
\* a history that leaves content_en out
HistoryL2_NoEn(ms) == MapHistory(SliceLast(ms, HistoryLimit), FALSE)
\* history of part_001 / part_002: role, content and content_en
HistoryL2(ms) == MapHistory(SliceLast(ms, HistoryLimit), TRUE)

\* a formatSources that shows a source whose score equals the threshold
formatSources_Inclusive(sources) ==
  IF Len(sources) = 0 THEN <<>>
  ELSE LET kept == SliceTo(SelectSeq(sources,
                       LAMBDA x : x.relevance_score >= RelevanceThreshold),
                     SourceLimit)
       IN IF kept = <<>> THEN <<>>
          ELSE <<SourceHeader>> \o [i \in 1..Len(kept) |-> kept[i].title]

\* formatSources: the empty text when nothing is appended
formatSources(sources) ==
  IF Len(sources) = 0 THEN <<>>
  ELSE LET kept == SliceTo(SelectSeq(sources,
                       LAMBDA x : x.relevance_score > RelevanceThreshold),
                     SourceLimit)
       IN IF kept = <<>> THEN <<>>
          ELSE <<SourceHeader>> \o [i \in 1..Len(kept) |-> kept[i].title]

\* which endpoint sendToAPI uses in the running build
RequestKind ==
  IF variant = "plain" THEN "chat"
  ELSE IF ~useRag THEN "chat"
  ELSE IF variant = "sse" THEN "stream" ELSE "rag"

\* sendToAPI up to its first await: the suspended call
sendToAPI(closureMessages, report) ==
  [IdleTask EXCEPT
     !.pc = "fetch",
     !.kind = RequestKind,
     !.history = IF variant = "plain" THEN HistoryPlain(closureMessages)
                 ELSE HistoryL2(closureMessages),
     !.ctx = IF RequestKind = "chat" /\ report # None
             THEN Some(SymptomContext(report[1])) ELSE None]

\* streamMessage up to its first await (store part): empty message, first slice
streamStart(ms, text, em, en) ==
  LET added == addMessage(ms, Msg("assistant", <<>>, en, em, None))
  IN IF Len(text) > 0
     THEN updateLastMessage(added, SliceTo(text, chunkSize))
     ELSE added

\* streamMessage: the suspended typing loop
typingTask(text, after) ==
  [IdleTask EXCEPT !.pc = "typing", !.kind = "typing", !.fullContent = text,
                   !.currentIndex = Min(chunkSize, Len(text)), !.after = after]

SomeFree == \E t \in Slots : Free(t)
Launch(task) ==
  /\ tasks' = [tasks EXCEPT ![FreeSlot] = task]
  /\ stale' = [stale EXCEPT ![FreeSlot] = FALSE]

\* the two mount effects of ChatPanel (welcome message / initial message)
MountEffects(mode, report) ==
  IF mode = "direct_chat" /\ Len(messages) = 0
  THEN /\ initialMessageSent' = TRUE
       /\ IF variant = "typing"
          THEN /\ SomeFree
               /\ isStreaming' = TRUE
               /\ messages' = streamStart(messages, WelcomeText, None, None)
               /\ Launch(typingTask(WelcomeText, "none"))
               /\ ownIdx' = [ownIdx EXCEPT ![FreeSlot] = Len(messages) + 1]
               /\ UNCHANGED <<isLoading, useRag, issued>>
          ELSE /\ messages' = addMessage(messages,
                                Msg("assistant", WelcomeText, None, None, None))
               /\ UNCHANGED <<isLoading, isStreaming, useRag, tasks, ownIdx, stale, issued>>
  ELSE IF mode = "model" /\ report # None /\ Len(messages) = 0
  THEN /\ SomeFree /\ issued < MaxRequests
       /\ issued' = issued + 1
       /\ initialMessageSent' = TRUE
       /\ messages' = addMessage(messages,
                        Msg("user", InitialText(report[1]), None, None, report))
       /\ isLoading' = TRUE
       /\ Launch(sendToAPI(messages, report))
       /\ ownIdx' = [ownIdx EXCEPT ![FreeSlot] = 0]
       /\ UNCHANGED <<isStreaming, useRag>>
  ELSE /\ initialMessageSent' = FALSE
       /\ UNCHANGED <<messages, isLoading, isStreaming, useRag, tasks, ownIdx, stale, issued>>

\* App.handleDirectChatMode, then ChatPanel mounts
HandleDirectChatMode ==
  /\ variant # "vanilla"
  /\ currentStep = "welcome" /\ interactionMode = Null
  /\ interactionMode' = "direct_chat"
  /\ currentStep' = "chat"
  /\ MountEffects("direct_chat", None)
  /\ UNCHANGED <<variant, intakeVars, hoveredRegion, fmtVars>>

\* a handleNext that enters chat without an onset
HandleNext_NoOnset ==
  /\ \/ /\ currentStep = "symptom_selection" /\ selectedSymptom # Null
        /\ currentStep' = "severity_selection"
        /\ UNCHANGED chatVars
     \/ /\ currentStep = "severity_selection"
        /\ currentStep' = "additional_info"
        /\ UNCHANGED chatVars
     \/ /\ currentStep = "additional_info"
        /\ currentStep' = "chat"
        /\ MountEffects(interactionMode, getCurrentSymptomReport)
  /\ UNCHANGED <<variant, interactionMode, intakeVars, hoveredRegion, fmtVars>>

\* SymptomPanel.handleNext; entering chat mounts ChatPanel
HandleNext ==
  /\ \/ /\ currentStep = "symptom_selection" /\ selectedSymptom # Null
        /\ currentStep' = "severity_selection"
        /\ UNCHANGED chatVars
     \/ /\ currentStep = "severity_selection"
        /\ currentStep' = "additional_info"
        /\ UNCHANGED chatVars
     \/ /\ currentStep = "additional_info" /\ onset # Null
        /\ currentStep' = "chat"
        /\ MountEffects(interactionMode, getCurrentSymptomReport)
  /\ UNCHANGED <<variant, interactionMode, intakeVars, hoveredRegion, fmtVars>>

\* handleSend: the guard of the build, then addMessage and sendToAPI
HandleSend(text) ==
  /\ currentStep = "chat"
  /\ ~isLoading
  /\ variant = "plain" \/ ~isStreaming
  /\ SomeFree /\ issued < MaxRequests
  /\ issued' = issued + 1
  /\ messages' = addMessage(messages, Msg("user", text, None, None, None))
  /\ isLoading' = TRUE
  /\ Launch(sendToAPI(messages, None))
  /\ ownIdx' = [ownIdx EXCEPT ![FreeSlot] = 0]
  /\ UNCHANGED <<variant, interactionMode, currentStep, intakeVars,
                 hoveredRegion, isStreaming, useRag, initialMessageSent, fmtVars>>

\* the RAG toggle button of part_001 / part_002
ToggleRag ==
  /\ currentStep = "chat" /\ variant # "plain"
  /\ useRag' = ~useRag
  /\ UNCHANGED <<variant, interactionMode, currentStep, intakeVars,
                 hoveredRegion, messages, isLoading, isStreaming,
                 initialMessageSent, tasks, ownIdx, stale, issued, fmtVars>>

Busy(t) == tasks[t].pc # "idle"
MarkStale == stale' = [t \in Slots |-> stale[t] \/ Busy(t)]

\* handleNewComplaint
HandleNewComplaint ==
  /\ currentStep = "chat"
  /\ resetSymptomSelection
  /\ IF interactionMode = "direct_chat"
     THEN /\ UNCHANGED currentStep
          \* clearMessages; the welcome effect of part_001 depends on
          \* messages.length and runs again when the length changed
          /\ IF variant = "sse" /\ Len(messages) # 0
             THEN /\ messages' = <<Msg("assistant", WelcomeText, None, None, None)>>
                  /\ initialMessageSent' = TRUE
             ELSE /\ messages' = <<>>
                  /\ initialMessageSent' = FALSE
          /\ ownIdx' = [t \in Slots |-> 0]
     ELSE /\ currentStep' = "body_selection"
          /\ initialMessageSent' = FALSE
          /\ UNCHANGED <<messages, ownIdx>>
  /\ MarkStale
  /\ UNCHANGED <<variant, interactionMode, hoveredRegion, isLoading,
                 isStreaming, useRag, tasks, issued, fmtVars>>

\* a handleBackToHome whose reset leaves hoveredRegion and isLoading alone
HandleBackToHome_KeepHover ==
  /\ currentStep = "chat"
  /\ interactionMode' = Null
  /\ currentStep' = "welcome"
  /\ resetSymptomSelection
  /\ messages' = <<>>
  /\ isStreaming' = FALSE
  /\ initialMessageSent' = FALSE
  /\ ownIdx' = [t \in Slots |-> 0]
  /\ MarkStale
  /\ UNCHANGED <<variant, useRag, tasks, issued, fmtVars, hoveredRegion, isLoading>>

\* a handleBackToHome whose reset leaves the intake fields alone
HandleBackToHome_KeepIntake ==
  /\ currentStep = "chat"
  /\ interactionMode' = Null
  /\ currentStep' = "welcome"
  /\ hoveredRegion' = Null
  /\ messages' = <<>>
  /\ isLoading' = FALSE
  /\ isStreaming' = FALSE
  /\ initialMessageSent' = FALSE
  /\ ownIdx' = [t \in Slots |-> 0]
  /\ MarkStale
  /\ UNCHANGED <<variant, useRag, tasks, issued, fmtVars, intakeVars>>

\* handleBackToHome: resetAll
HandleBackToHome ==
  /\ currentStep = "chat"
  /\ interactionMode' = Null
  /\ currentStep' = "welcome"
  /\ resetSymptomSelection
  /\ hoveredRegion' = Null
  /\ messages' = <<>>
  /\ isLoading' = FALSE
  /\ isStreaming' = FALSE
  /\ initialMessageSent' = FALSE
  /\ ownIdx' = [t \in Slots |-> 0]
  /\ MarkStale
  /\ UNCHANGED <<variant, useRag, tasks, issued, fmtVars>>

\* ------------------------------------------------------------ async calls
\* the call returns: its slot is free again
Return(t) ==
  /\ tasks' = [tasks EXCEPT ![t] = IdleTask]
  /\ ownIdx' = [ownIdx EXCEPT ![t] = 0]
  /\ stale' = [stale EXCEPT ![t] = FALSE]

ErrorMsg == Msg("assistant", GenericError, None, None, None)

\* POST /chat or POST /rag/chat answers 200 with a body
Respond(t, resp, en, em, ragUsed, srcs) ==
  /\ tasks[t].pc = "fetch" /\ tasks[t].kind \in {"chat", "rag"}
  /\ LET rag == tasks[t].kind = "rag"
         responseText == IF rag /\ ragUsed /\ Len(srcs) > 0
                         THEN resp \o formatSources(srcs) ELSE resp
         isEmergency == IF rag THEN FALSE ELSE em
     IN CASE variant = "plain" ->
               /\ messages' = addMessage(messages,
                     Msg("assistant", resp, None, Some(em), None))
               /\ isLoading' = FALSE
               /\ Return(t)
               /\ UNCHANGED isStreaming
          [] variant = "sse" ->
               /\ messages' = addMessage(messages,
                     Msg("assistant", responseText, en, Some(isEmergency), None))
               /\ isLoading' = FALSE
               /\ Return(t)
               /\ UNCHANGED isStreaming
          [] variant = "typing" ->
               /\ messages' = streamStart(messages, responseText, Some(isEmergency), en)
               /\ IF Len(responseText) > 0
                  THEN /\ isStreaming' = TRUE
                       /\ tasks' = [tasks EXCEPT ![t] =
                            [typingTask(responseText, "finally")
                               EXCEPT !.reported = Some(em)]]
                       /\ ownIdx' = [ownIdx EXCEPT ![t] = Len(messages) + 1]
                       /\ UNCHANGED <<isLoading, stale>>
                  ELSE /\ isStreaming' = FALSE
                       /\ isLoading' = FALSE
                       /\ Return(t)
  /\ UNCHANGED <<variant, interactionMode, currentStep, intakeVars,
                 hoveredRegion, useRag, initialMessageSent, issued, fmtVars>>

\* a catch block that sends the request again
Fail_Retry(t) ==
  /\ tasks[t].pc = "fetch" /\ tasks[t].kind # "vanilla"
  /\ issued < MaxRequests
  /\ issued' = issued + 1
  /\ UNCHANGED <<variant, storeVars, initialMessageSent, tasks, ownIdx, stale, fmtVars>>

\* fetch rejects or answers a non-OK status: the catch block, then finally
Fail(t) ==
  /\ tasks[t].pc = "fetch" /\ tasks[t].kind # "vanilla"
  /\ IF variant = "typing"
     THEN /\ messages' = streamStart(messages, GenericError, None, None)
          /\ isStreaming' = TRUE
          /\ tasks' = [tasks EXCEPT ![t] = typingTask(GenericError, "finally")]
          /\ ownIdx' = [ownIdx EXCEPT ![t] = Len(messages) + 1]
          /\ UNCHANGED <<isLoading, stale>>
     ELSE /\ messages' = addMessage(messages, ErrorMsg)
          /\ isLoading' = FALSE
          /\ IF tasks[t].kind = "stream" THEN isStreaming' = FALSE
             ELSE UNCHANGED isStreaming
          /\ Return(t)
  /\ UNCHANGED <<variant, interactionMode, currentStep, intakeVars,
                 hoveredRegion, useRag, initialMessageSent, issued, fmtVars>>

\* streamMessage: the timeout fired, the loop goes on or the call returns
TypingStep(t) ==
  /\ tasks[t].pc = "typing"
  /\ LET text == tasks[t].fullContent
         nextIndex == Min(tasks[t].currentIndex + chunkSize, Len(text))
     IN IF tasks[t].currentIndex < Len(text)
        THEN /\ messages' = updateLastMessage(messages, SliceTo(text, nextIndex))
             /\ tasks' = [tasks EXCEPT ![t].currentIndex = nextIndex]
             /\ UNCHANGED <<isLoading, isStreaming, ownIdx, stale>>
        ELSE /\ isStreaming' = FALSE
             /\ IF tasks[t].after = "finally" THEN isLoading' = FALSE
                ELSE UNCHANGED isLoading
             /\ Return(t)
             /\ UNCHANGED messages
  /\ UNCHANGED <<variant, interactionMode, currentStep, intakeVars,
                 hoveredRegion, useRag, initialMessageSent, issued, fmtVars>>

\* POST /rag/chat/stream answers 200: the reader is taken
StreamOpen(t) ==
  /\ tasks[t].pc = "fetch" /\ tasks[t].kind = "stream"
  /\ tasks' = [tasks EXCEPT ![t].pc = "read"]
  /\ UNCHANGED <<variant, storeVars, initialMessageSent, ownIdx, stale, issued, fmtVars>>

\* a line  data: {"type":"chunk","content":c}
ChunkEvent(t, c) ==
  /\ tasks[t].pc = "read" /\ tasks[t].term = "none"
  /\ IF ~tasks[t].streamingStarted
     THEN /\ isStreaming' = TRUE
          /\ messages' = updateLastMessage(
                addMessage(messages, Msg("assistant", <<>>, None, Some(FALSE), None)), c)
          /\ ownIdx' = [ownIdx EXCEPT ![t] = Len(messages) + 1]
     ELSE /\ messages' = updateLastMessage(messages, c)
          /\ UNCHANGED <<isStreaming, ownIdx>>
  /\ tasks' = [tasks EXCEPT ![t].streamingStarted = TRUE, ![t].fullContent = c,
                            ![t].lastChunk = c]
  /\ UNCHANGED <<variant, interactionMode, currentStep, intakeVars,
                 hoveredRegion, isLoading, useRag, initialMessageSent, stale, issued, fmtVars>>

\* a line  data: {"type":"done","sources":srcs,"rag_used":ragUsed,"response_en":..}
\* (data.response_en is not read)
DoneEvent(t, srcs, ragUsed) ==
  /\ tasks[t].pc = "read" /\ tasks[t].term = "none"
  /\ LET appended == ragUsed /\ Len(srcs) > 0
         fullContent == tasks[t].fullContent \o formatSources(srcs)
     IN /\ messages' = IF appended THEN updateLastMessage(messages, fullContent)
                       ELSE messages
        /\ tasks' = [tasks EXCEPT ![t].term = "done",
                        ![t].fullContent = IF appended THEN fullContent ELSE @]
  /\ UNCHANGED <<variant, interactionMode, currentStep, intakeVars,
                 hoveredRegion, isLoading, isStreaming, useRag,
                 initialMessageSent, ownIdx, stale, issued, fmtVars>>

\* a line  data: {"type":"error","message":m}
ErrorEvent(t, m) ==
  /\ tasks[t].pc = "read" /\ tasks[t].term = "none"
  /\ messages' = updateLastMessage(messages, EventError(m))
  /\ tasks' = [tasks EXCEPT ![t].term = "error"]
  /\ UNCHANGED <<variant, interactionMode, currentStep, intakeVars,
                 hoveredRegion, isLoading, isStreaming, useRag,
                 initialMessageSent, ownIdx, stale, issued, fmtVars>>

\* reader.read() resolves with done: the loop is left, then finally
StreamClose(t) ==
  /\ tasks[t].pc = "read"
  /\ isLoading' = FALSE
  /\ isStreaming' = FALSE
  /\ Return(t)
  /\ UNCHANGED <<variant, interactionMode, currentStep, intakeVars,
                 hoveredRegion, messages, useRag, initialMessageSent, issued, fmtVars>>

\* reader.read() rejects: the catch block, then finally
StreamThrow(t) ==
  /\ tasks[t].pc = "read"
  /\ messages' = IF tasks[t].streamingStarted
                 THEN updateLastMessage(messages, GenericError)
                 ELSE addMessage(messages, ErrorMsg)
  /\ isLoading' = FALSE
  /\ isStreaming' = FALSE
  /\ Return(t)
  /\ UNCHANGED <<variant, interactionMode, currentStep, intakeVars,
                 hoveredRegion, useRag, initialMessageSent, issued, fmtVars>>

\* ------------------------------------------------------------ the page script
VanillaError == <<"x", "B", "a", "c", "k">>

\* sendMessage of part_000 up to await fetch: the user message is pushed,
\* the history is the last messages without the one just pushed
sendMessage(text) ==
  /\ variant = "vanilla"
  /\ ~isLoading
  /\ SomeFree /\ issued < MaxRequests
  /\ issued' = issued + 1
  /\ isLoading' = TRUE
  /\ LET pushed == Append(messages, Msg("user", text, None, None, None))
         history == MapHistory(SliceLast(pushed, HistoryLimit), FALSE)
     IN /\ messages' = pushed
        /\ Launch([IdleTask EXCEPT !.pc = "fetch", !.kind = "vanilla",
                                   !.history = SliceTo(history, Len(history) - 1)])
  /\ ownIdx' = [ownIdx EXCEPT ![FreeSlot] = 0]
  /\ UNCHANGED <<variant, interactionMode, currentStep, intakeVars,
                 hoveredRegion, isStreaming, useRag, initialMessageSent, fmtVars>>

\* sendMessage after await fetch: addAssistantMessage(data.response), finally
VanillaRespond(t, resp) ==
  /\ tasks[t].pc = "fetch" /\ tasks[t].kind = "vanilla"
  /\ messages' = Append(messages, Msg("assistant", resp, None, None, None))
  /\ isLoading' = FALSE
  /\ Return(t)
  /\ UNCHANGED <<variant, interactionMode, currentStep, intakeVars,
                 hoveredRegion, isStreaming, useRag, initialMessageSent, issued, fmtVars>>

\* sendMessage: fetch rejects or answers a non-OK status: catch, finally
VanillaFail(t) ==
  /\ tasks[t].pc = "fetch" /\ tasks[t].kind = "vanilla"
  /\ messages' = Append(messages, Msg("assistant", VanillaError, None, None, None))
  /\ isLoading' = FALSE
  /\ Return(t)
  /\ UNCHANGED <<variant, interactionMode, currentStep, intakeVars,
                 hoveredRegion, isStreaming, useRag, initialMessageSent, issued, fmtVars>>

\* ------------------------------------------------------------ specification
\* the store and ChatPanel after construction
InitStore ==
  /\ variant \in Variants
  /\ interactionMode = Null
  /\ currentStep = "welcome"
  /\ selectedRegion = Null
  /\ hoveredRegion = Null
  /\ selectedSymptom = Null
  /\ severity = DefaultSeverity
  /\ onset = Null
  /\ trigger = Null
  /\ redFlags = <<>>
  /\ additionalNotes = ""
  /\ messages = <<>>
  /\ isLoading = FALSE
  /\ isStreaming = FALSE
  /\ useRag \in (IF variant \in {"plain", "vanilla"} THEN {FALSE} ELSE BOOLEAN)
  /\ initialMessageSent = FALSE
  /\ tasks = [t \in Slots |-> IdleTask]
  /\ ownIdx = [t \in Slots |-> 0]
  /\ stale = [t \in Slots |-> FALSE]
  /\ fmtIn = <<>>
  /\ fmtOut = <<>>
  /\ tplIn = None
  /\ tplOut = <<>>
  /\ tplPrevIn = None
  /\ tplPrevOut = <<>>
  /\ rdEmitted = <<>>
  /\ rdWire = <<>>
  /\ rdApplied = <<>>
  /\ rpOut = None

Init ==
  /\ InitStore
  /\ issued = 0

OptEn == {None} \cup {Some(e) : e \in ResponsesEn}

\* what the user does in the wizard: the required inputs only
WizardPath ==
  \/ HandleModelMode
  \/ \E r \in ChatRegions : HandleRegionClick(r)
  \/ \E s \in ChatSymptoms : SelectSymptom(s)
  \/ \E o \in Onsets : SetOnset(o)
  \/ HandleBack
  \/ HandleNext

\* the optional inputs of the wizard
WizardOptions ==
  \/ \E r \in Regions \cup {Null} : SetHoveredRegion(r)
  \/ \E v \in Severities : SetSeverity(v)
  \/ \E g \in Triggers : SetTrigger(g)
  \/ \E f \in RedFlags : ToggleRedFlag(f)
  \/ \E n \in Notes : SetAdditionalNotes(n)

\* what the user does in the chat
ChatUser ==
  \/ HandleDirectChatMode
  \/ \E text \in UserTexts : HandleSend(text)
  \/ ToggleRag
  \/ HandleNewComplaint
  \/ HandleBackToHome

\* what the network and the timers do
Async ==
  \/ \E t \in Slots, resp \in Responses, en \in OptEn, em \in BOOLEAN,
        ragUsed \in BOOLEAN, srcs \in SourceLists :
        Respond(t, resp, en, em, ragUsed, srcs)
  \/ \E t \in Slots : Fail(t)
  \/ \E t \in Slots : TypingStep(t)
  \/ \E t \in Slots : StreamOpen(t)
  \/ \E t \in Slots, c \in ChunkTexts : ChunkEvent(t, c)
  \/ \E t \in Slots, srcs \in SourceLists, ragUsed \in BOOLEAN :
        DoneEvent(t, srcs, ragUsed)
  \/ \E t \in Slots, m \in ErrorMessages : ErrorEvent(t, m)
  \/ \E t \in Slots : StreamClose(t)
  \/ \E t \in Slots : StreamThrow(t)

\* the page script: the user sends, the network answers
Vanilla ==
  \/ \E text \in UserTexts : sendMessage(text)
  \/ \E t \in Slots, resp \in Responses : VanillaRespond(t, resp)
  \/ \E t \in Slots : VanillaFail(t)

\* conversations: the wizard is walked with its required inputs
Next == WizardPath \/ ChatUser \/ Async \/ Vanilla

Spec == Init /\ [][Next]_vars

\* ------------------------------------------------------------ formatSources alone
AllSourceLists == UNION {[1..n -> SourcePool] : n \in 0..MaxSources}
Pending == <<"?">>

InitFormat ==
  /\ Init
  /\ variant = "sse"
  /\ useRag = TRUE

\* a source list arrives
SourcesArrive(srcs) ==
  /\ fmtOut # Pending
  /\ fmtIn' = srcs
  /\ fmtOut' = Pending
  /\ UNCHANGED <<variant, storeVars, initialMessageSent, tasks, histVars, tplVars, rdVars, rpOut>>

\* formatSources(sources)
FormatCall ==
  /\ fmtOut = Pending
  /\ fmtOut' = formatSources(fmtIn)
  /\ UNCHANGED <<variant, storeVars, initialMessageSent, tasks, histVars, fmtIn, tplVars, rdVars, rpOut>>

NextFormat ==
  \/ \E srcs \in AllSourceLists : SourcesArrive(srcs)
  \/ FormatCall

SpecFormat == InitFormat /\ [][NextFormat]_vars

\* ------------------------------------------------------------ the intake wizard
\* the wizard with every region, symptom and optional input of the model,
\* in front of ChatPanel.tsx
\* one request can be issued in a behaviour of the wizard
InitIntake ==
  /\ InitStore
  /\ variant = "plain"
  /\ issued = MaxRequests - 1

\* what the user does in the wizard: every input
WizardWide ==
  \/ HandleModelMode
  \/ \E r \in Regions : HandleRegionClick(r)
  \/ \E s \in Symptoms : SelectSymptom(s)
  \/ \E o \in Onsets : SetOnset(o)
  \/ HandleBack
  \/ HandleNext

\* POST /chat answers or fails
AsyncPlain ==
  \/ \E t \in Slots, resp \in Responses, em \in BOOLEAN :
        Respond(t, resp, None, em, FALSE, <<>>)
  \/ \E t \in Slots : Fail(t)

NextIntake ==
  \/ WizardWide
  \/ WizardOptions
  \/ HandleDirectChatMode
  \/ \E text \in UserTexts : HandleSend(text)
  \/ HandleNewComplaint
  \/ HandleBackToHome
  \/ AsyncPlain

SpecIntake == InitIntake /\ [][NextIntake]_vars

\* ------------------------------------------------------------ sendInitialMessage alone
FlagPool == {"severe_pain", "high_fever"}
\* lists of distinct red flags, in the order they were toggled on
FlagLists ==
  {fs \in UNION {[1..n -> FlagPool] : n \in 0..MaxFlags} :
     \A i, j \in 1..Len(fs) : i # j => fs[i] # fs[j]}
\* the reports getCurrentSymptomReport can return
Reports ==
  {[region |-> r, symptom |-> sy, severity |-> sv, onset |-> o, trigger |-> g,
    redFlags |-> fs, additionalNotes |-> n] :
     r \in Regions, sy \in Symptoms, sv \in Severities, o \in Onsets,
     g \in {None} \cup {Some(x) : x \in Triggers}, fs \in FlagLists,
     n \in {None, Some("n")}}

InitTemplate ==
  /\ InitStore
  /\ variant \in {"plain", "sse"}
  /\ useRag = FALSE
  /\ issued = 0

\* a report is completed
ReportArrives(report) ==
  /\ tplOut # Pending
  /\ report.symptom \in RegionSymptoms(report.region)
  /\ tplPrevIn' = tplIn
  /\ tplPrevOut' = tplOut
  /\ tplIn' = Some(report)
  /\ tplOut' = Pending
  /\ UNCHANGED <<variant, storeVars, initialMessageSent, tasks, histVars, fmtIn, fmtOut, rdVars, rpOut>>

\* sendInitialMessage(report): the text of the user message
SynthCall ==
  /\ tplOut = Pending
  /\ tplOut' = InitialText(tplIn[1])
  /\ UNCHANGED <<variant, storeVars, initialMessageSent, tasks, histVars, fmtIn, fmtOut,
                 tplIn, tplPrevIn, tplPrevOut, rdVars, rpOut>>

NextTemplate ==
  \/ \E report \in Reports : ReportArrives(report)
  \/ SynthCall

SpecTemplate == InitTemplate /\ [][NextTemplate]_vars

\* ------------------------------------------------------------ the reader loop over bytes
\* the events of a body: chunk events with cumulative content, then done or error
ChunkIds == <<"k1", "k2", "k3">>
StreamText == <<"c", "d", "e">>
EventIds == {ChunkIds[i] : i \in 1..Len(ChunkIds)} \cup {"dn", "er"}
\* JSON.parse of the payload of a line
EventOf(id) ==
  IF id = "dn" THEN [type |-> "done", content |-> <<>>]
  ELSE IF id = "er" THEN [type |-> "error", content |-> EventError("m")]
  ELSE [type |-> "chunk",
        content |-> SliceTo(StreamText, CHOOSE i \in 1..Len(ChunkIds) : ChunkIds[i] = id)]
Emissions ==
  {SliceTo(ChunkIds, n) \o <<last>> : n \in 0..MaxChunks, last \in {"dn", "er"}}

\* one event on the wire:  data: {...}\n\n  (the prefix in two pieces)
Ser(id) == <<"da", "ta: ", "{", id, "}", "\n", "\n">>
RECURSIVE Wire(_)
Wire(ids) == IF ids = <<>> THEN <<>> ELSE Ser(Head(ids)) \o Wire(Tail(ids))

\* chunk.split('\n')
RECURSIVE SplitLines(_)
SplitLines(b) ==
  IF \A i \in 1..Len(b) : b[i] # "\n" THEN <<b>>
  ELSE LET k == CHOOSE i \in 1..Len(b) : b[i] = "\n" /\ \A j \in 1..(i - 1) : b[j] # "\n"
       IN <<SubSeq(b, 1, k - 1)>> \o SplitLines(SubSeq(b, k + 1, Len(b)))

\* line.startsWith('data: ') and JSON.parse(line.slice(6)) does not throw
ParseLine(line) ==
  IF Len(line) >= 2 /\ line[1] = "da" /\ line[2] = "ta: "
  THEN LET rest == SubSeq(line, 3, Len(line))
       IN IF Len(rest) = 3 /\ rest[1] = "{" /\ rest[3] = "}" /\ rest[2] \in EventIds
          THEN Some(rest[2]) ELSE None
  ELSE None

\* the events of the lines of one read, in order
RECURSIVE EventsOf(_)
EventsOf(lines) ==
  IF lines = <<>> THEN <<>> ELSE ParseLine(Head(lines)) \o EventsOf(Tail(lines))

\* the body of the for loop for one event
ApplyEvent(st, id) ==
  LET e == EventOf(id)
  IN CASE e.type = "chunk" ->
            LET ms == IF st.streamingStarted THEN st.messages
                      ELSE addMessage(st.messages,
                             Msg("assistant", <<>>, None, Some(FALSE), None))
            IN [st EXCEPT !.streamingStarted = TRUE,
                          !.isStreaming = IF st.streamingStarted THEN @ ELSE TRUE,
                          !.own = IF st.streamingStarted THEN @ ELSE Len(st.messages) + 1,
                          !.fullContent = e.content,
                          !.lastChunk = e.content,
                          !.messages = updateLastMessage(ms, e.content)]
       [] e.type = "done" -> [st EXCEPT !.term = "done"]
       [] OTHER ->
            [st EXCEPT !.term = "error",
                       !.messages = updateLastMessage(st.messages, e.content)]

RECURSIVE ApplyEvents(_, _)
ApplyEvents(st, ids) ==
  IF ids = <<>> THEN st ELSE ApplyEvents(ApplyEvent(st, Head(ids)), Tail(ids))

\* POST /rag/chat/stream answers 200 with the body the server will write
ReaderOpen(t, ids) ==
  /\ tasks[t].pc = "fetch" /\ tasks[t].kind = "stream"
  /\ tasks' = [tasks EXCEPT ![t].pc = "read"]
  /\ rdEmitted' = ids
  /\ rdWire' = Wire(ids)
  /\ rdApplied' = <<>>
  /\ UNCHANGED <<variant, storeVars, initialMessageSent, ownIdx, stale, issued,
                 fmtIn, fmtOut, tplVars, rpOut>>

\* reader.read() resolves with the next n bytes: decode, split, the for loop
ReadBytes(t, n) ==
  /\ tasks[t].pc = "read"
  /\ n \in 1..Len(rdWire)
  /\ LET ids == EventsOf(SplitLines(SubSeq(rdWire, 1, n)))
         st == ApplyEvents(
                 [messages |-> messages, isStreaming |-> isStreaming,
                  own |-> ownIdx[t],
                  streamingStarted |-> tasks[t].streamingStarted,
                  fullContent |-> tasks[t].fullContent,
                  lastChunk |-> tasks[t].lastChunk, term |-> tasks[t].term], ids)
     IN /\ messages' = st.messages
        /\ isStreaming' = st.isStreaming
        /\ ownIdx' = [ownIdx EXCEPT ![t] = st.own]
        /\ tasks' = [tasks EXCEPT ![t].streamingStarted = st.streamingStarted,
                                  ![t].fullContent = st.fullContent,
                                  ![t].lastChunk = st.lastChunk,
                                  ![t].term = st.term]
        /\ rdApplied' = rdApplied \o ids
  /\ rdWire' = SubSeq(rdWire, n + 1, Len(rdWire))
  /\ UNCHANGED <<variant, interactionMode, currentStep, intakeVars, hoveredRegion,
                 isLoading, useRag, initialMessageSent, stale, issued,
                 fmtIn, fmtOut, tplVars, rdEmitted, rpOut>>

\* reader.read() resolves with done when the body has been read
ReaderClose(t) == rdWire = <<>> /\ StreamClose(t)

\* one streamed turn of a direct chat
InitReader ==
  /\ InitStore
  /\ variant = "sse"
  /\ useRag = TRUE
  /\ issued = MaxRequests - 1

NextReader ==
  \/ HandleDirectChatMode
  \/ \E text \in UserTexts : HandleSend(text)
  \/ \E t \in Slots, ids \in Emissions : ReaderOpen(t, ids)
  \/ \E t \in Slots, n \in 1..Len(rdWire) : ReadBytes(t, n)
  \/ \E t \in Slots : ReaderClose(t)

SpecReader == InitReader /\ [][NextReader]_vars

\* ------------------------------------------------------------ getCurrentSymptomReport alone
\* the severities of the slider drawn for the store
SliderSeverities == {0, DefaultSeverity, 10}
reportFrame == <<variant, interactionMode, currentStep, hoveredRegion, messages,
                 isLoading, isStreaming, useRag, initialMessageSent, tasks,
                 histVars, fmtIn, fmtOut, tplVars, rdVars>>

\* the setters of the store
setSelectedRegion(region) ==
  /\ selectedRegion' = region
  /\ UNCHANGED <<reportFrame, rpOut, selectedSymptom, severity, onset, trigger,
                 redFlags, additionalNotes>>
setSelectedSymptom(symptom) ==
  /\ selectedSymptom' = symptom
  /\ UNCHANGED <<reportFrame, rpOut, selectedRegion, severity, onset, trigger,
                 redFlags, additionalNotes>>
setSeverity(level) ==
  /\ severity' = level
  /\ UNCHANGED <<reportFrame, rpOut, selectedRegion, selectedSymptom, onset, trigger,
                 redFlags, additionalNotes>>
setOnset(o) ==
  /\ onset' = o
  /\ UNCHANGED <<reportFrame, rpOut, selectedRegion, selectedSymptom, severity, trigger,
                 redFlags, additionalNotes>>
setTrigger(g) ==
  /\ trigger' = g
  /\ UNCHANGED <<reportFrame, rpOut, selectedRegion, selectedSymptom, severity, onset,
                 redFlags, additionalNotes>>
toggleRedFlagCall(flag) ==
  /\ redFlags' = toggleRedFlag(redFlags, flag)
  /\ UNCHANGED <<reportFrame, rpOut, selectedRegion, selectedSymptom, severity, onset,
                 trigger, additionalNotes>>
setAdditionalNotes(notes) ==
  /\ additionalNotes' = notes
  /\ UNCHANGED <<reportFrame, rpOut, selectedRegion, selectedSymptom, severity, onset,
                 trigger, redFlags>>

\* a call of getCurrentSymptomReport: the state it reads and what it returns
ReportCall ==
  /\ rpOut' = Some([state |-> [selectedRegion |-> selectedRegion,
                               selectedSymptom |-> selectedSymptom,
                               severity |-> severity, onset |-> onset,
                               trigger |-> trigger, redFlags |-> redFlags,
                               additionalNotes |-> additionalNotes],
                    result |-> getCurrentSymptomReport])
  /\ UNCHANGED <<reportFrame, intakeVars>>

InitReport ==
  /\ InitStore
  /\ variant = "plain"
  /\ useRag = FALSE
  /\ issued = 0

NextReport ==
  \/ \E region \in Regions \cup {Null} : setSelectedRegion(region)
  \/ \E symptom \in Symptoms \cup {Null} : setSelectedSymptom(symptom)
  \/ \E level \in SliderSeverities : setSeverity(level)
  \/ \E o \in Onsets \cup {Null} : setOnset(o)
  \/ \E g \in Triggers \cup {Null} : setTrigger(g)
  \/ \E flag \in RedFlags : toggleRedFlagCall(flag)
  \/ \E notes \in Notes : setAdditionalNotes(notes)
  \/ ReportCall

SpecReport == InitReport /\ [][NextReport]_vars

\* ------------------------------------------------------------ the message list alone
\* new Date() of an addMessage
TimeStamps == {1, 2}
\* the messages handed to addMessage: Omit<ChatMessage, 'id' | 'timestamp'>
NewMessages ==
  {Msg(role, <<"q">>, en, em, None) :
     role \in {"user", "assistant"}, en \in {None, Some(<<"en">>)},
     em \in {None, Some(TRUE)}}
UpdateTexts == {<<>>, <<"u">>}

\* addMessage(message): the message with a fresh id and the time of the call
addMessageCall(message, now) ==
  /\ Len(messages) < MaxHistory
  /\ messages' = addMessage(messages,
       [id |-> Len(messages) + 1, timestamp |-> now, role |-> message.role,
        content |-> message.content, content_en |-> message.content_en,
        isEmergency |-> message.isEmergency,
        symptomContext |-> message.symptomContext])
  /\ UNCHANGED <<variant, interactionMode, currentStep, intakeVars, hoveredRegion,
                 isLoading, isStreaming, useRag, initialMessageSent, tasks,
                 histVars, fmtVars>>

\* updateLastMessage(content)
updateLastMessageCall(content) ==
  /\ messages' = updateLastMessage(messages, content)
  /\ UNCHANGED <<variant, interactionMode, currentStep, intakeVars, hoveredRegion,
                 isLoading, isStreaming, useRag, initialMessageSent, tasks,
                 histVars, fmtVars>>

InitHistory ==
  /\ InitStore
  /\ variant = "plain"
  /\ useRag = FALSE
  /\ issued = 0

NextHistory ==
  \/ \E message \in NewMessages, now \in TimeStamps : addMessageCall(message, now)
  \/ \E content \in UpdateTexts : updateLastMessageCall(content)

SpecHistory == InitHistory /\ [][NextHistory]_vars

\* ------------------------------------------------------------ a send in a long conversation
TurnIds == <<"1", "2", "3", "4", "5", "6", "7", "8", "9">>
\* a direct chat after k answered turns: the welcome message of the ChatPanel
\* builds, then user and assistant messages in turn
RECURSIVE Turns(_, _)
Turns(k, em) ==
  IF k = 0 THEN <<>>
  ELSE Turns(k - 1, em) \o <<Msg("user", <<"q", TurnIds[k]>>, None, None, None),
                             Msg("assistant", <<"r", TurnIds[k]>>, None, em, None)>>
Conversation(v, k) ==
  IF v = "vanilla" THEN Turns(k, None)
  ELSE <<Msg("assistant", WelcomeText, None, None, None)>> \o Turns(k, Some(FALSE))

InitSend ==
  /\ variant \in Variants
  /\ interactionMode = IF variant = "vanilla" THEN Null ELSE "direct_chat"
  /\ currentStep = IF variant = "vanilla" THEN "welcome" ELSE "chat"
  /\ selectedRegion = Null
  /\ hoveredRegion = Null
  /\ selectedSymptom = Null
  /\ severity = DefaultSeverity
  /\ onset = Null
  /\ trigger = Null
  /\ redFlags = <<>>
  /\ additionalNotes = ""
  /\ messages \in {Conversation(variant, k) : k \in 0..MaxTurns}
  /\ isLoading = FALSE
  /\ isStreaming = FALSE
  /\ useRag \in (IF variant \in {"plain", "vanilla"} THEN {FALSE} ELSE BOOLEAN)
  /\ initialMessageSent = (variant # "vanilla")
  /\ tasks = [t \in Slots |-> IdleTask]
  /\ ownIdx = [t \in Slots |-> 0]
  /\ stale = [t \in Slots |-> FALSE]
  /\ issued = MaxRequests - 1
  /\ fmtIn = <<>>
  /\ fmtOut = <<>>
  /\ tplIn = None
  /\ tplOut = <<>>
  /\ tplPrevIn = None
  /\ tplPrevOut = <<>>
  /\ rdEmitted = <<>>
  /\ rdWire = <<>>
  /\ rdApplied = <<>>
  /\ rpOut = None

NextSend ==
  \/ \E text \in UserTexts : HandleSend(text)
  \/ Async
  \/ Vanilla

SpecSend == InitSend /\ [][NextSend]_vars

\* ------------------------------------------------------------ properties
ErrorContents == {GenericError} \cup {EventError(m) : m \in ErrorMessages}
Own(t) == ownIdx[t] \in 1..Len(messages)

\* C1: at most one API request is in flight at any time, and isLoading is
\* true for as long as a request is in flight.
C1_OneRequestInFlight ==
  /\ Cardinality({t \in Slots : InFlight(t)}) <= 1
  /\ \A t \in Slots : InFlight(t) => isLoading

\* C2: no step changes the content of a message that was and stays a
\* user-role message.
C2_UserMessagesKept ==
  [][\A i \in 1..Len(messages) :
       (i <= Len(messages') /\ messages[i].role = "user"
          /\ messages'[i].role = "user")
         => messages'[i].content = messages[i].content]_vars

\* C3: every step that enters 'chat' in model mode with a symptom report
\* appends exactly one message, a user message, and issues exactly one request.
C3_EntrySynthesizes ==
  [][(currentStep # "chat" /\ currentStep' = "chat" /\ interactionMode' = "model"
        /\ getCurrentSymptomReport # None)
       => /\ Len(messages') = Len(messages) + 1
          /\ messages'[Len(messages')].role = "user"
          /\ issued' = issued + 1]_vars

\* C4: when a stream that showed text ends without a done or error event,
\* the message of the turn holds an error text, not the partial text.
C4_UnfinishedStreamFails ==
  [][\A t \in Slots :
       (tasks[t].pc = "read" /\ tasks[t].term = "none"
          /\ tasks[t].streamingStarted /\ tasks'[t].pc = "idle"
          /\ ownIdx[t] \in 1..Len(messages'))
         => messages'[ownIdx[t]].content \in ErrorContents]_vars

\* C5: once a streamed turn that showed text received its error event, the
\* message of the turn holds an error text for the rest of the turn.
C5_ErrorStays ==
  \A t \in Slots :
    (tasks[t].pc = "read" /\ tasks[t].term = "error"
       /\ tasks[t].streamingStarted /\ Own(t))
      => messages[ownIdx[t]].content \in ErrorContents

\* C6: once a streamed turn that showed text received its done event, the
\* content of its message is the content of the last chunk, followed by
\* nothing or by a formatted source list.
C6_DoneContent ==
  \A t \in Slots :
    (tasks[t].pc = "read" /\ tasks[t].term = "done"
       /\ tasks[t].streamingStarted /\ Own(t))
      => LET content == messages[ownIdx[t]].content
             last == tasks[t].lastChunk
         IN /\ IsPrefix(last, content)
            /\ \/ Len(content) = Len(last)
               \/ content[Len(last) + 1] = SourceHeader

\* C7: the content_en of an assistant message never changes, and the message
\* of a streamed turn has its content_en when the done event is handled.
C7_ContentEnOnce ==
  [][/\ \A i \in 1..Len(messages) :
          (i <= Len(messages') /\ messages[i].role = "assistant"
             /\ messages'[i].role = "assistant"
             /\ messages[i].content_en # None)
            => messages'[i].content_en = messages[i].content_en
     /\ \A t \in Slots :
          (tasks[t].pc = "read" /\ tasks[t].term = "none"
             /\ tasks'[t].term = "done" /\ tasks[t].streamingStarted
             /\ ownIdx[t] \in 1..Len(messages'))
            => messages'[ownIdx[t]].content_en # None]_vars

\* C8: a request that is issued carries the messages the history is taken
\* from, and for each of them that has a content_en exactly that content_en.
C8_HistoryCarriesL2 ==
  [][\A t \in Slots :
       (tasks[t].pc = "idle" /\ tasks'[t].pc = "fetch")
         => LET sent == SliceLast(messages, HistoryLimit)
                h == tasks'[t].history
            IN /\ Len(h) <= Len(sent)
               /\ variant # "vanilla" => Len(h) = Len(sent)
               /\ \A i \in 1..Len(h) :
                    LET m == sent[Len(sent) - Len(h) + i]
                    IN m.content_en # None => h[i].content_en = m.content_en]_vars

\* a request is waiting whose history holds a message with a content_en
C8_Witness ==
  \E t \in Slots :
    /\ tasks[t].pc = "fetch"
    /\ \E i \in 1..Len(tasks[t].history) : tasks[t].history[i].content_en # None

\* C9: a step of a call that was suspended when the user reset the
\* conversation changes none of messages, isLoading, isStreaming.
C9_StaleCallsSilent ==
  [][\A t \in Slots :
       (stale[t] /\ tasks'[t] # tasks[t])
         => UNCHANGED <<messages, isLoading, isStreaming>>]_vars

\* the first n sources of s whose score is above the threshold
RECURSIVE FirstQualifying(_, _)
FirstQualifying(s, n) ==
  IF s = <<>> \/ n = 0 THEN <<>>
  ELSE IF Head(s).relevance_score > RelevanceThreshold
       THEN <<Head(s)>> \o FirstQualifying(Tail(s), n - 1)
       ELSE FirstQualifying(Tail(s), n)

\* C10: the source list formatted from the received sources names exactly
\* the first (at most 3) sources with a score above 0.3, in received order,
\* and is empty when no source qualifies.
C10_SourceList ==
  fmtOut # Pending
    => LET want == FirstQualifying(fmtIn, SourceLimit)
       IN /\ want = <<>> => fmtOut = <<>>
          /\ want # <<>> =>
               /\ Len(fmtOut) = Len(want) + 1
               /\ fmtOut[1] = SourceHeader
               /\ \A i \in 1..Len(want) : fmtOut[i + 1] = want[i].title

\* a list was formatted that loses a source to the threshold and one to the limit
C10_Witness ==
  /\ fmtOut # Pending
  /\ Len(fmtOut) = SourceLimit + 1
  /\ \E i \in 1..Len(fmtIn) : fmtIn[i].relevance_score = RelevanceThreshold
  /\ Cardinality({i \in 1..Len(fmtIn) :
                    fmtIn[i].relevance_score > RelevanceThreshold}) > SourceLimit

\* C11: in model mode chat is entered only from additional_info with an onset
\* set, additional_info only from severity_selection, and severity_selection
\* only from symptom_selection with a symptom chosen or back from
\* additional_info.
C11_StepOrder ==
  [][interactionMode = "model" =>
       /\ (currentStep # "chat" /\ currentStep' = "chat")
            => (currentStep = "additional_info" /\ onset # Null)
       /\ (currentStep # "additional_info" /\ currentStep' = "additional_info")
            => currentStep = "severity_selection"
       /\ (currentStep # "severity_selection" /\ currentStep' = "severity_selection")
            => \/ currentStep = "symptom_selection" /\ selectedSymptom # Null
               \/ currentStep = "additional_info"]_vars

\* chat was entered in model mode, for the region head
C11_Witness ==
  /\ interactionMode = "model"
  /\ currentStep = "chat"
  /\ selectedRegion = "head"
  /\ Len(messages) > 0

\* the intake fields have their initial values after the step
IntakeInitial ==
  /\ selectedRegion' = Null
  /\ selectedSymptom' = Null
  /\ severity' = DefaultSeverity
  /\ onset' = Null
  /\ trigger' = Null
  /\ redFlags' = <<>>
  /\ additionalNotes' = ""

\* C12: 'new complaint' in model mode puts every intake field back to its
\* initial value, sets the step to body_selection and keeps messages and
\* interactionMode; messages become empty only by the reset of direct chat or
\* by back-to-home.
C12_NewComplaint ==
  [][/\ (interactionMode = "model" /\ currentStep = "chat"
           /\ currentStep' = "body_selection")
          => /\ IntakeInitial
             /\ messages' = messages
             /\ interactionMode' = interactionMode
     /\ (messages # <<>> /\ messages' = <<>>)
          => /\ currentStep = "chat"
             /\ currentStep' = "welcome" \/ interactionMode = "direct_chat"]_vars

\* after 'new complaint' in model mode: the synthesized message of a report
\* with severity 7, a trigger and notes is kept, the fields are reset
C12_Witness ==
  /\ interactionMode = "model"
  /\ currentStep = "body_selection"
  /\ Len(messages) > 0
  /\ messages[1].role = "user"
  /\ messages[1].symptomContext # None
  /\ messages[1].symptomContext[1].severity = 7
  /\ messages[1].symptomContext[1].trigger # None
  /\ messages[1].symptomContext[1].additionalNotes # None
  /\ Len(messages[1].symptomContext[1].redFlags) > 0
  /\ severity = DefaultSeverity /\ trigger = Null /\ additionalNotes = ""
  /\ redFlags = <<>> /\ selectedRegion = Null

\* C13: after 'back to home' every field of the session state has its initial
\* value: no mode, step welcome, intake fields at their defaults, no hovered
\* region, no messages, isLoading and isStreaming false.
C13_BackToHome ==
  [][(currentStep = "chat" /\ currentStep' = "welcome")
       => /\ interactionMode' = Null
          /\ IntakeInitial
          /\ hoveredRegion' = Null
          /\ messages' = <<>>
          /\ isLoading' = FALSE
          /\ isStreaming' = FALSE]_vars

\* the welcome page is shown again while a request of the left conversation
\* is still waiting
C13_Witness ==
  /\ currentStep = "welcome"
  /\ interactionMode = Null
  /\ messages = <<>>
  /\ ~isLoading
  /\ hoveredRegion = Null
  /\ \E t \in Slots : stale[t] /\ tasks[t].pc = "fetch" /\ tasks[t].ctx # None

\* the text a streaming call has written so far
Shown(task) ==
  IF task.kind = "typing" THEN SliceTo(task.fullContent, task.currentIndex)
  ELSE task.fullContent
\* the call is between its first write and its end
Streaming(task) ==
  \/ task.pc = "typing"
  \/ task.pc = "read" /\ task.streamingStarted /\ task.term # "error"

\* C14: while a turn is streamed, every step in which the text its call has
\* written does not shrink leaves the content of its message an extension of
\* the content before.
C14_ContentGrows ==
  [][\A t \in Slots :
       (Streaming(tasks[t]) /\ Streaming(tasks'[t])
          /\ Own(t) /\ ownIdx'[t] = ownIdx[t] /\ ownIdx[t] <= Len(messages')
          /\ IsPrefix(Shown(tasks[t]), Shown(tasks'[t])))
         => IsPrefix(messages[ownIdx[t]].content, messages'[ownIdx[t]].content)]_vars

\* a user message is appended in the step
UserTurn ==
  /\ Len(messages') = Len(messages) + 1
  /\ messages'[Len(messages')].role = "user"

\* C15: a request is issued exactly in the steps that append a user message,
\* one per step, and no step in which a request ends issues another one.
C15_OneRequestPerTurn ==
  [][/\ issued' \in {issued, issued + 1}
     /\ (issued' = issued + 1) <=> UserTurn
     /\ \A t \in Slots :
          (InFlight(t) /\ tasks'[t].pc \notin {"fetch", "read"})
            => /\ issued' = issued
               /\ \A u \in Slots : tasks'[u].pc = "fetch" => tasks[u].pc = "fetch"]_vars

\* every request that was issued has ended, the last one with a reported
\* failure
C15_Witness ==
  /\ issued = MaxRequests
  /\ \A t \in Slots : ~Busy(t)
  /\ Len(messages) > 1
  /\ messages[Len(messages)].role = "assistant"
  /\ messages[Len(messages)].content \in ErrorContents \cup {VanillaError}
  /\ messages[Len(messages) - 1].role = "user"

\* C16: the isEmergency recorded on the message of a turn is the emergency
\* result the response of the turn reported.
C16_EmergencyRecorded ==
  \A t \in Slots :
    (tasks[t].reported # None /\ Own(t))
      => messages[ownIdx[t]].isEmergency = tasks[t].reported

\* C17: a request that is issued carries a symptom_context exactly when the
\* user message of its turn was synthesized from a report, and then the
\* context of that report.
C17_ContextOnFirstTurnOnly ==
  [][\A t \in Slots :
       (tasks[t].pc = "idle" /\ tasks'[t].pc = "fetch" /\ UserTurn)
         => LET report == messages'[Len(messages')].symptomContext
            IN /\ report = None => tasks'[t].ctx = None
               /\ report # None => tasks'[t].ctx = Some(SymptomContext(report[1]))]_vars

\* the wording of an onset, a trigger and a red flag in the running build
OnsetWord(o) == IF variant = "plain" THEN OnsetNameTr(o) ELSE getOnsetMessage(o)
TriggerWord(g) == IF variant = "plain" THEN TriggerNameTr(g) ELSE getTriggerMessage(g)
FlagWord(f) == IF variant = "plain" THEN RedFlagNameTr(f) ELSE getRedFlagMessage(f)
\* the places of a word in a text
Places(t, w) == {i \in 1..Len(t) : t[i] = w}

C19_DirectChatHasNoIntake ==
  /\ [](/\ (interactionMode = Null) <=> (currentStep = "welcome")
        /\ interactionMode = "direct_chat" =>
             /\ currentStep = "chat"
             /\ selectedRegion = Null
             /\ selectedSymptom = Null
             /\ severity = DefaultSeverity
             /\ onset = Null
             /\ trigger = Null
             /\ redFlags = <<>>
             /\ additionalNotes = ""
             /\ getCurrentSymptomReport = None)
  /\ [][(interactionMode' = "direct_chat" /\ UserTurn)
          => /\ messages'[Len(messages')].symptomContext = None
             /\ \A t \in Slots :
                  (tasks[t].pc = "idle" /\ tasks'[t].pc = "fetch")
                    => tasks'[t].ctx = None]_vars

\* direct chat was entered after an intake was left for the home screen with
\* its call still suspended, and the user's turn has been answered
C19_Witness ==
  /\ interactionMode = "direct_chat"
  /\ \E t \in Slots : stale[t] /\ tasks[t].ctx # None
  /\ Len(messages) >= 3
  /\ messages[Len(messages) - 1].role = "user"
  /\ messages[Len(messages)].role = "assistant"

\* the call in slot t belongs to a send: a request, or the typing loop that
\* shows its response
IsSend(t) ==
  \/ tasks[t].kind \in {"chat", "rag", "stream", "vanilla"}
  \/ tasks[t].kind = "typing" /\ tasks[t].after = "finally"
\* the call in slot t returns in the step
Completes(t) == Busy(t) /\ tasks'[t].pc = "idle"

\* C20: when a send completes and the history was not reset meanwhile, the
\* history ends with the user's message followed by one assistant message.
C20_OneAssistantMessage ==
  [][\A t \in Slots :
       (IsSend(t) /\ Completes(t) /\ ~stale[t])
         => /\ Len(messages') >= 2
            /\ messages'[Len(messages')].role = "assistant"
            /\ messages'[Len(messages') - 1].role = "user"]_vars

\* C21: when the body of a turn has been read, the events the reader loop
\* applied are the events the server wrote, each once and in order, however
\* the bytes were split into reads.
C21_EventsAppliedOnce ==
  \A t \in Slots :
    (tasks[t].pc = "read" /\ rdWire = <<>>) => rdApplied = rdEmitted

\* C22: whenever the wizard is at chat in model mode, selectedSymptom is one
\* of the symptoms BODY_REGIONS lists for selectedRegion.
C22_SymptomOfRegion ==
  (interactionMode = "model" /\ currentStep = "chat")
    => /\ selectedRegion # Null
       /\ selectedSymptom \in RegionSymptoms(selectedRegion)

\* C23: in the step in which a send completes (its request resolved or
\* failed, its stream closed, its response was typed out), isLoading and
\* isStreaming are both false.
C23_IdleAfterSend ==
  [][\A t \in Slots :
       (IsSend(t) /\ Completes(t)) => (~isLoading' /\ ~isStreaming')]_vars

\* C24: in model mode, the steps from symptom_selection to additional_info
\* have a region, the steps severity_selection and additional_info have a
\* symptom, body_selection has no region, and chat has a report.
C24_StepFields ==
  interactionMode = "model" =>
    /\ currentStep \in {"symptom_selection", "severity_selection", "additional_info"}
         => selectedRegion # Null
    /\ currentStep \in {"severity_selection", "additional_info"}
         => selectedSymptom # Null
    /\ currentStep = "body_selection" => selectedRegion = Null
    /\ currentStep = "chat" => getCurrentSymptomReport # None

\* the wizard went back from additional_info to body_selection, choosing a
\* symptom again on the way
C24_Witness ==
  /\ interactionMode = "model"
  /\ currentStep = "body_selection"
  /\ selectedRegion = Null
  /\ selectedSymptom = "stiffness"
  /\ onset # Null

\* C25: getCurrentSymptomReport returns null exactly when the region, the
\* symptom or the onset is unset, and otherwise a report whose fields are the
\* fields of the state, a null trigger and empty notes being absent.
C25_ReportOfState ==
  rpOut # None =>
    LET st == rpOut[1].state
        res == rpOut[1].result
    IN /\ (res = None) <=>
            (st.selectedRegion = Null \/ st.selectedSymptom = Null \/ st.onset = Null)
       /\ res # None =>
            /\ res[1].region = st.selectedRegion
            /\ res[1].symptom = st.selectedSymptom
            /\ res[1].severity = st.severity
            /\ res[1].onset = st.onset
            /\ res[1].redFlags = st.redFlags
            /\ (st.trigger = Null) <=> (res[1].trigger = None)
            /\ st.trigger # Null => res[1].trigger = <<st.trigger>>
            /\ (st.additionalNotes = "") <=> (res[1].additionalNotes = None)
            /\ st.additionalNotes # "" => res[1].additionalNotes = <<st.additionalNotes>>

\* a report was returned for severity 0 with no trigger, no red flag and
\* empty notes
C25_Witness ==
  /\ rpOut # None
  /\ rpOut[1].result # None
  /\ rpOut[1].state.severity = 0
  /\ rpOut[1].state.trigger = Null
  /\ rpOut[1].state.redFlags = <<>>
  /\ rpOut[1].state.additionalNotes = ""

\* C26: a store call changes the history only at its tail: either one message
\* is appended and every earlier message is unchanged, or the length is kept,
\* every message but the last is unchanged and the last differs at most in its
\* content; an empty history keeps its length only by staying empty.
C26_TailOnly ==
  [][LET n == Len(messages)
     IN \/ /\ Len(messages') = n + 1
           /\ SubSeq(messages', 1, n) = messages
        \/ /\ Len(messages') = n
           /\ \A i \in 1..(n - 1) : messages'[i] = messages[i]
           /\ n > 0 => messages' =
                [messages EXCEPT ![n] =
                   [messages[n] EXCEPT !.content = messages'[n].content]]]_messages

\* the last of several messages, one that has a translation and an emergency
\* flag, was updated
C26_Witness ==
  /\ Len(messages) >= 2
  /\ messages[Len(messages)].content = <<"u">>
  /\ messages[Len(messages)].content_en # None
  /\ messages[Len(messages)].isEmergency # None
  /\ messages[1].content = <<"u">>

\* C27: every step of a typing loop leaves the message the loop appended with
\* the prefix of the text typed so far, and when the loop returns that message
\* holds the full text and isStreaming is false.
C27_TypingCompletes ==
  [][\A t \in Slots :
       tasks[t].pc = "typing" =>
         /\ (tasks'[t].pc = "typing" /\ tasks'[t].currentIndex # tasks[t].currentIndex)
              => /\ ownIdx[t] \in 1..Len(messages')
                 /\ messages'[ownIdx[t]].content =
                      SliceTo(tasks[t].fullContent, tasks'[t].currentIndex)
         /\ Completes(t)
              => /\ ownIdx[t] \in 1..Len(messages')
                 /\ messages'[ownIdx[t]].role = "assistant"
                 /\ messages'[ownIdx[t]].content = tasks[t].fullContent
                 /\ ~isStreaming']_vars

\* C28: in direct-chat mode the history starts with the welcome message (as
\* far as it has been typed), and no later message is a welcome message.
C28_OneWelcome ==
  interactionMode = "direct_chat" =>
    /\ Len(messages) >= 1
    /\ messages[1].role = "assistant"
    /\ IsPrefix(messages[1].content, WelcomeText)
    /\ \A i \in 2..Len(messages) : messages[i].content # WelcomeText

\* C29: the history of a request that is issued holds the messages recorded
\* just before the user's message, in their order and without a gap, at most
\* HistoryLimit of them, and not the user's message itself.
C29_HistoryBeforeTurn ==
  [][\A t \in Slots :
       (tasks[t].pc = "idle" /\ tasks'[t].pc = "fetch" /\ UserTurn)
         => LET h == tasks'[t].history
                n == Len(messages)
                cur == messages'[n + 1]
            IN /\ Len(h) <= HistoryLimit
               /\ Len(h) <= n
               /\ Len(h) >= Min(n, HistoryLimit - 1)
               /\ \A i \in 1..Len(h) :
                    /\ h[i].role = messages[n - Len(h) + i].role
                    /\ h[i].content = messages[n - Len(h) + i].content
                    /\ h[i].content # cur.content]_vars

\* a request is waiting whose history was cut to HistoryLimit messages
C29_Witness ==
  \E t \in Slots :
    /\ tasks[t].pc = "fetch"
    /\ Len(tasks[t].history) = HistoryLimit
    /\ Len(messages) > HistoryLimit + 1
    /\ tasks[t].history[HistoryLimit].content = messages[Len(messages) - 1].content

=============================================================================
